---- MODULE Spec2Model ----
(***************************************************************************)
(* Model of mtpy/imaging/penetration_depth_3d_profile.py (Python 2).       *)
(*                                                                         *)
(* Numbers.  Latitudes, longitudes and the pixel size are fixed-point      *)
(* integers in units of 0.001 degree, so the pixel size 0.002 is 2 and     *)
(* 0.001 is 1; arithmetic on them is exact.  Frequencies, periods and      *)
(* resistivities are positive rationals <<numerator, denominator>> in      *)
(* lowest terms.  A penetration depth  -k * sqrt(x)  is kept as the        *)
(* record [neg, sq] with sq the rational x under the root (k is the        *)
(* fixed scale_param), which determines the value.                         *)
(***************************************************************************)
EXTENDS Integers, Sequences, FiniteSets, TLC

(***************************************************************************)
(* Bounds of the model.                                                    *)
(***************************************************************************)
MaxLen == 3         \* longest coordinate / period list given to a pure function
MaxCoord == 2       \* coordinates drawn for the pure functions: 0..MaxCoord
MaxStations == 2    \* most *.edi files in the station directory
MaxIndex == 2       \* period_index is drawn from -MaxIndex..MaxIndex
MaxCsvStations == 3 \* most *.edi files in the directory create_csv_file reads
MaxGridStations == 3 \* most *.edi files in the directory of a plot of nearby sites

(***************************************************************************)
(* Program constants.                                                      *)
(***************************************************************************)
pixelsize == 2              \* 0.002 degree
pad == 4
get_index_offset == 1       \* default of get_index's offset parameter
bar3d_pixelsize == 1        \* 0.001 degree
bar3d_offset == 3
exit_usage == 1             \* sys.exit(1)
exit_unsupported == 100     \* sys.exit(100)

(***************************************************************************)
(* Rationals <<n, d>> with d > 0, in lowest terms.                         *)
(***************************************************************************)
RECURSIVE Gcd(_, _)
Gcd(a, b) == IF b = 0 THEN a ELSE Gcd(b, a % b)

Abs(x) == IF x < 0 THEN -x ELSE x

Rat(n, d) ==
    LET g == Gcd(Abs(n), d)
    IN  <<n \div g, d \div g>>

RMul(p, q) == Rat(p[1] * q[1], p[2] * q[2])

\* 1.0 / q for a positive q
RInv(q) == <<q[2], q[1]>>

(***************************************************************************)
(* Python built-ins the module uses.                                       *)
(***************************************************************************)
\* round(n / d) of Python 2, d > 0: to the nearest integer, a half away from zero
Round(n, d) ==
    IF n >= 0 THEN (2 * n + d) \div (2 * d)
              ELSE -((2 * (-n) + d) \div (2 * d))

\* int(n / d), d > 0: truncation toward zero
Trunc(n, d) == IF n >= 0 THEN n \div d ELSE -((-n) \div d)

\* int(n / d) of a quotient that is not negative, d > 0
CeilOmitted(n, d) == n \div d

\* int(np.ceil(n / d)), d > 0
Ceil(n, d) == -((-n) \div d)

\* min(seq) and max(seq) of a non-empty list: one pass keeping the best so far
RECURSIVE PyMinFrom(_, _, _)
PyMinFrom(seq, i, best) ==
    IF i > Len(seq) THEN best
    ELSE PyMinFrom(seq, i + 1, IF seq[i] < best THEN seq[i] ELSE best)

PyMin(seq) == PyMinFrom(seq, 2, seq[1])

RECURSIVE PyMaxFrom(_, _, _)
PyMaxFrom(seq, i, best) ==
    IF i > Len(seq) THEN best
    ELSE PyMaxFrom(seq, i + 1, IF seq[i] > best THEN seq[i] ELSE best)

PyMax(seq) == PyMaxFrom(seq, 2, seq[1])

\* seq[i] of Python for -len <= i < len (a negative index counts from the end)
PyGet(seq, i) == IF i >= 0 THEN seq[i + 1] ELSE seq[Len(seq) + i + 1]

PyInRange(seq, i) == -Len(seq) <= i /\ i < Len(seq)

(***************************************************************************)
(* Outcome of a call: still running, returned, an exception raised         *)
(* (uncaught), or the process ended by sys.exit(status).                   *)
(***************************************************************************)
Running == [kind |-> "running", exc |-> "", at |-> "", status |-> 0]
Returned == [kind |-> "returned", exc |-> "", at |-> "", status |-> 0]
Raised(exc, at) == [kind |-> "raised", exc |-> exc, at |-> at, status |-> 0]
Exited(status) == [kind |-> "exit", exc |-> "SystemExit", at |-> "", status |-> status]

(***************************************************************************)
(* get_bounding_box(latlons), lines 267-282.  The value is                 *)
(* ((minlon, maxlon), (minlat, maxlat)); min() of an empty list raises     *)
(* ValueError.                                                             *)
(***************************************************************************)
get_bounding_box_empty_ok(latlons) ==
    LET lats == [i \in 1..Len(latlons) |-> latlons[i][1]]
        lons == [i \in 1..Len(latlons) |-> latlons[i][2]]
    IN  IF latlons = <<>>
        THEN [raised |-> FALSE, value |-> <<<<0, 0>>, <<0, 0>>>>]
        ELSE [raised |-> FALSE,
              value |-> <<<<PyMin(lons), PyMax(lons)>>, <<PyMin(lats), PyMax(lats)>>>>]

get_bounding_box_swapped(latlons) ==
    LET lats == [i \in 1..Len(latlons) |-> latlons[i][1]]
        lons == [i \in 1..Len(latlons) |-> latlons[i][2]]
    IN  IF latlons = <<>>
        THEN [raised |-> TRUE, value |-> <<<<0, 0>>, <<0, 0>>>>]
        ELSE [raised |-> FALSE,
              value |-> <<<<PyMin(lats), PyMax(lats)>>, <<PyMin(lons), PyMax(lons)>>>>]

get_bounding_box(latlons) ==
    LET lats == [i \in 1..Len(latlons) |-> latlons[i][1]]
        lons == [i \in 1..Len(latlons) |-> latlons[i][2]]
    IN  IF latlons = <<>>
        THEN [raised |-> TRUE, value |-> <<<<0, 0>>, <<0, 0>>>>]
        ELSE [raised |-> FALSE,
              value |-> <<<<PyMin(lons), PyMax(lons)>>, <<PyMin(lats), PyMax(lats)>>>>]

(***************************************************************************)
(* get_index(lat, lon, minlat, minlon, pixelsize, offset=1), lines 285-294 *)
(***************************************************************************)
get_index_trunc(lat, lon, minlat, minlon, psize, offset) ==
    <<Trunc(lon - minlon, psize) + offset, Trunc(lat - minlat, psize) + offset>>

get_index_latfirst(lat, lon, minlat, minlon, psize, offset) ==
    <<Round(lat - minlat, psize) + offset, Round(lon - minlon, psize) + offset>>

get_index(lat, lon, minlat, minlon, psize, offset) ==
    LET ix == Round(lon - minlon, psize)
        iy == Round(lat - minlat, psize)
    IN  <<ix + offset, iy + offset>>

(***************************************************************************)
(* check_period_values(period_list), lines 364-382.  period_list[0] of an  *)
(* empty list raises IndexError.                                           *)
(***************************************************************************)
RECURSIVE AllEqualFrom(_, _, _)
AllEqualFrom(period_list, i, p0) ==
    IF i > Len(period_list) THEN TRUE
    ELSE IF period_list[i] # p0 THEN FALSE
    ELSE AllEqualFrom(period_list, i + 1, p0)

\* the same scan with a relative tolerance of 1/1000 in place of !=
RECURSIVE AllCloseFrom(_, _, _)
AllCloseFrom(period_list, i, p0) ==
    IF i > Len(period_list) THEN TRUE
    ELSE IF 1000 * Abs(period_list[i][1] * p0[2] - p0[1] * period_list[i][2])
              > p0[1] * period_list[i][2]
         THEN FALSE
    ELSE AllCloseFrom(period_list, i + 1, p0)

check_period_values_tolerant(period_list) ==
    IF period_list = <<>>
    THEN [raised |-> TRUE, value |-> FALSE]
    ELSE [raised |-> FALSE, value |-> AllCloseFrom(period_list, 1, period_list[1])]

check_period_values_empty_ok(period_list) ==
    IF period_list = <<>>
    THEN [raised |-> FALSE, value |-> TRUE]
    ELSE [raised |-> FALSE, value |-> AllEqualFrom(period_list, 1, period_list[1])]

check_period_values(period_list) ==
    IF period_list = <<>>
    THEN [raised |-> TRUE, value |-> FALSE]
    ELSE [raised |-> FALSE, value |-> AllEqualFrom(period_list, 1, period_list[1])]

(***************************************************************************)
(* State.  entry is the function the caller invoked and args its inputs    *)
(* (for the functions that read no station file); files is what            *)
(* glob(edi_dir/*.edi) lists, isdir what os.path.isdir says of the path,   *)
(* argv the command line after the script name.  fn is the plotting or     *)
(* export function now running, period_index and zcomponent its            *)
(* arguments.  The rest are the functions' local variables, named as in    *)
(* the source; k is the position of the running for loop; shown counts the *)
(* plt.show() calls made; csvfile is what was written to outputcsv.        *)
(***************************************************************************)
VARIABLES entry, args, argv, isdir, files, fn, period_index, zcomponent,
          pc, outcome, ret,
          edifiles, k, stations, periods, pendep, latlons,
          bbox, zdep, points, values, shown,
          PER_LIST0, latlon_dep, csvfile,
          reason, msg, filter_action, emitted, called,
          result_dir, saved, compared, ext

inputs == <<entry, args, argv, isdir, files>>
callvars == <<fn, period_index, zcomponent>>
looplocals == <<edifiles, k, stations, periods, pendep, latlons>>
plotlocals == <<bbox, zdep, points, values, shown>>
csvlocals == <<PER_LIST0, latlon_dep, csvfile>>
\* utils/decorator.py: self.reason and msg of deprecated, the action of the first
\* filter of the warnings module that matches a DeprecationWarning, the warnings
\* emitted, and the arguments of the calls of the decorated original
\* ImageCompare: the directory the test images are saved to, the extensions saved
\* and compared so far, and the position in self.extensions
imagelocals == <<result_dir, saved, compared, ext>>
decolocals == <<reason, msg, filter_action, emitted, called, imagelocals>>
vars == <<inputs, callvars, pc, outcome, ret, looplocals, plotlocals, csvlocals, decolocals>>

\* np.nan, and the array that does not exist yet
NaN == [nan |-> TRUE, neg |-> FALSE, sq |-> <<0, 1>>]
NoGrid == [shape |-> <<0, 0>>, cells |-> <<>>]
NoFile == [written |-> FALSE, rows |-> <<>>]
NoBox == <<<<0, 0>>, <<0, 0>>>>
PyNone == [none |-> TRUE, value |-> <<>>]
NoMessage == [fmt |-> "", name |-> "", reason |-> ""]
NoDirectory == [exists |-> FALSE, images |-> {}]
Some(v) == [none |-> FALSE, value |-> v]

\* the locals before any function has run
LocalsInit ==
    /\ edifiles = <<>> /\ k = 0
    /\ stations = <<>> /\ periods = <<>> /\ pendep = <<>> /\ latlons = <<>>
    /\ bbox = NoBox /\ zdep = NoGrid /\ points = <<>> /\ values = <<>> /\ shown = 0
    /\ PER_LIST0 = PyNone /\ latlon_dep = <<>> /\ csvfile = NoFile
    /\ reason = "" /\ msg = NoMessage /\ filter_action = "default"
    /\ emitted = <<>> /\ called = <<>>
    /\ result_dir = NoDirectory /\ saved = <<>> /\ compared = <<>> /\ ext = 0

(***************************************************************************)
(* The functions that read no file, called on their own.                   *)
(***************************************************************************)
RECURSIVE SeqsUpTo(_, _)
SeqsUpTo(S, n) ==
    IF n = 0 THEN {<<>>}
    ELSE LET shorter == SeqsUpTo(S, n - 1)
         IN  shorter \cup {Append(s, x) : s \in {t \in shorter : Len(t) = n - 1}, x \in S}

ExampleLatLons == <<<<10, 20>>, <<15, 25>>, <<5, 30>>>>
ExamplePeriodsEqual == <<<<8, 1>>, <<8, 1>>, <<8, 1>>>>
ExamplePeriodsUnequal == <<<<8, 1>>, <<80001, 10000>>, <<8, 1>>>>

FnCoords == 0..MaxCoord
FnLatLons == SeqsUpTo(FnCoords \X FnCoords, MaxLen) \cup {ExampleLatLons}
FnPeriodValues == {<<8, 1>>, <<80001, 10000>>, <<1, 2>>}
FnPeriodLists ==
    SeqsUpTo(FnPeriodValues, MaxLen) \cup {ExamplePeriodsEqual, ExamplePeriodsUnequal}
FnIndexArgs ==
    [lat : 0..(2 * MaxCoord), lon : 0..(2 * MaxCoord),
     minlat : FnCoords, minlon : FnCoords,
     pixelsize : {bar3d_pixelsize, pixelsize, pixelsize + 1},
     offset_given : BOOLEAN, offset : {0, bar3d_offset}]

InitFn ==
    /\ \/ entry = "get_bounding_box" /\ args \in [latlons : FnLatLons]
       \/ entry = "get_index"
          /\ args \in {a \in FnIndexArgs : ~a.offset_given => a.offset = 0}
       \/ entry = "check_period_values" /\ args \in [period_list : FnPeriodLists]
    /\ argv = <<>> /\ isdir = FALSE /\ files = <<>>
    /\ fn = "none" /\ period_index = 0 /\ zcomponent = "det"
    /\ pc = "call" /\ outcome = Running /\ ret = <<>>
    /\ LocalsInit

Call_get_bounding_box ==
    /\ pc = "call" /\ entry = "get_bounding_box"
    /\ LET r == get_bounding_box(args.latlons)
       IN  /\ outcome' = IF r.raised THEN Raised("ValueError", "get_bounding_box")
                         ELSE Returned
           /\ ret' = IF r.raised THEN <<>> ELSE r.value
    /\ pc' = "done"
    /\ UNCHANGED <<inputs, decolocals, callvars, looplocals, plotlocals, csvlocals>>

Call_get_index ==
    /\ pc = "call" /\ entry = "get_index"
    /\ ret' = get_index(args.lat, args.lon, args.minlat, args.minlon, args.pixelsize,
                        IF args.offset_given THEN args.offset ELSE get_index_offset)
    /\ outcome' = Returned
    /\ pc' = "done"
    /\ UNCHANGED <<inputs, decolocals, callvars, looplocals, plotlocals, csvlocals>>

Call_check_period_values ==
    /\ pc = "call" /\ entry = "check_period_values"
    /\ LET r == check_period_values(args.period_list)
       IN  /\ outcome' = IF r.raised THEN Raised("IndexError", "check_period_values")
                         ELSE Returned
           /\ ret' = r.value
    /\ pc' = "done"
    /\ UNCHANGED <<inputs, decolocals, callvars, looplocals, plotlocals, csvlocals>>

NextFn ==
    \/ Call_get_bounding_box
    \/ Call_get_index
    \/ Call_check_period_values

SpecFn == InitFn /\ [][NextFn]_vars

(***************************************************************************)
(* C1: for every non-empty list of (lat, lon) pairs get_bounding_box       *)
(* returns ((min_lon, max_lon), (min_lat, max_lat)): the least and the     *)
(* greatest of the second components, then of the first components; so     *)
(* min <= max on both axes, min = max for a single pair, and               *)
(* [(10,20),(15,25),(5,30)] gives ((20,30),(5,15)).                        *)
(***************************************************************************)
IsLeast(m, S) == m \in S /\ \A x \in S : m <= x
IsGreatest(m, S) == m \in S /\ \A x \in S : x <= m

C1_BoundingBox ==
    (entry = "get_bounding_box" /\ pc = "done" /\ args.latlons # <<>>) =>
        LET ll == args.latlons
            firsts == {ll[i][1] : i \in DOMAIN ll}
            seconds == {ll[i][2] : i \in DOMAIN ll}
        IN  /\ outcome.kind = "returned"
            /\ IsLeast(ret[1][1], seconds) /\ IsGreatest(ret[1][2], seconds)
            /\ IsLeast(ret[2][1], firsts) /\ IsGreatest(ret[2][2], firsts)
            /\ ret[1][1] <= ret[1][2] /\ ret[2][1] <= ret[2][2]
            /\ (Len(ll) = 1 => ret[1][1] = ret[1][2] /\ ret[2][1] = ret[2][2])
            /\ (ll = ExampleLatLons => ret = <<<<20, 30>>, <<5, 15>>>>)

C1_Witness ==
    /\ entry = "get_bounding_box" /\ pc = "done"
    /\ args.latlons = ExampleLatLons
    /\ ret = <<<<20, 30>>, <<5, 15>>>>

(***************************************************************************)
(* C2: get_index returns (ix, iy), the longitude index first, with         *)
(* ix = round((lon - min_lon) / pixel_size) + offset and                   *)
(* iy = round((lat - min_lat) / pixel_size) + offset, and offset is 1 when *)
(* it is not given.  round(n / d) = q says: q is an integer nearest to     *)
(* n / d, and of two nearest the one away from zero.                       *)
(***************************************************************************)
IsRounded(q, n, d) ==
    /\ 2 * Abs(q * d - n) <= d
    /\ (2 * Abs(q * d - n) = d => Abs(q * d) > Abs(n))

C2_GetIndex ==
    (entry = "get_index" /\ pc = "done") =>
        LET off == IF args.offset_given THEN args.offset ELSE 1
        IN  /\ outcome.kind = "returned"
            /\ IsRounded(ret[1] - off, args.lon - args.minlon, args.pixelsize)
            /\ IsRounded(ret[2] - off, args.lat - args.minlat, args.pixelsize)

C2_Witness ==
    /\ entry = "get_index" /\ pc = "done" /\ ~args.offset_given
    /\ args.pixelsize = 2
    /\ args.lon - args.minlon = 1 /\ args.lat - args.minlat = 4
    /\ ret = <<2, 3>>

(***************************************************************************)
(* C3: mapping a coordinate with get_index and the cell back with          *)
(* lon' = min_lon + (ix - offset) * pixel_size,                            *)
(* lat' = min_lat + (iy - offset) * pixel_size gives a point within        *)
(* pixel_size / 2 of the coordinate on each axis.                          *)
(***************************************************************************)
C3_OffsetUsed == IF args.offset_given THEN args.offset ELSE get_index_offset
C3_LonBack == args.minlon + (ret[1] - C3_OffsetUsed) * args.pixelsize
C3_LatBack == args.minlat + (ret[2] - C3_OffsetUsed) * args.pixelsize

C3_RoundTrip ==
    (entry = "get_index" /\ pc = "done") =>
        /\ 2 * Abs(C3_LonBack - args.lon) <= args.pixelsize
        /\ 2 * Abs(C3_LatBack - args.lat) <= args.pixelsize

\* a coordinate off the cell centres: half a pixel off on one axis (the bound
\* is met), a third of a pixel off on the other
C3_Witness ==
    /\ entry = "get_index" /\ pc = "done"
    /\ \/ 2 * Abs(C3_LonBack - args.lon) = args.pixelsize
       \/ 3 * Abs(C3_LatBack - args.lat) = args.pixelsize
    /\ C3_LonBack # args.lon /\ C3_LatBack # args.lat

(***************************************************************************)
(* C4: check_period_values returns True exactly when every value of a      *)
(* non-empty period list equals the first one, with no tolerance, and      *)
(* False otherwise: [8.0, 8.0, 8.0] gives True, [8.0, 8.0001, 8.0] False.  *)
(***************************************************************************)
C4_CheckPeriodValues ==
    (entry = "check_period_values" /\ pc = "done" /\ args.period_list # <<>>) =>
        LET pl == args.period_list
        IN  /\ outcome.kind = "returned"
            /\ ret \in BOOLEAN
            /\ (ret <=> \A i \in DOMAIN pl : pl[i] = pl[1])
            /\ (pl = ExamplePeriodsEqual => ret = TRUE)
            /\ (pl = ExamplePeriodsUnequal => ret = FALSE)

C4_Witness ==
    /\ entry = "check_period_values" /\ pc = "done"
    /\ args.period_list = ExamplePeriodsUnequal
    /\ outcome.kind = "returned" /\ ret = FALSE

(***************************************************************************)
(* Station files.  mt.MT(afile) gives station, lat, lon and the impedance  *)
(* object Z with freq (one frequency per period index), resistivity (one   *)
(* 2 x 2 tensor per frequency, of which [0, 1] is xy and [1, 0] is yx) and *)
(* det[0] (one determinant per frequency).                                 *)
(***************************************************************************)
MakeZ(freqs, rho) ==
    [freq |-> freqs,
     resistivity |-> [i \in 1..Len(freqs) |-> [xy |-> rho.xy, yx |-> rho.yx]],
     det |-> [i \in 1..Len(freqs) |-> rho.det]]

EdiFile(coord, freqs, rho) ==
    [station |-> coord, lat |-> coord[1], lon |-> coord[2], Z |-> MakeZ(freqs, rho)]

\* frequencies 0.125 Hz and 1 Hz: periods 8 s and 1 s
FreqLists == {<<<<1, 8>>>>, <<<<1, 1>>>>, <<<<1, 8>>, <<1, 1>>>>}
Rhos == {[xy |-> <<100, 1>>, yx |-> <<400, 1>>, det |-> <<-5, 1>>],
         [xy |-> <<400, 1>>, yx |-> <<400, 1>>, det |-> <<20, 1>>]}
SiteCoords == {<<0, 0>>, <<3, 1>>}

EdiFiles == {EdiFile(c, f, r) : c \in SiteCoords, f \in FreqLists, r \in Rhos}

Supported == {"zxy", "zyx", "det"}
Selectors == Supported \cup {"zxx"}

(***************************************************************************)
(* Depths.  MinusSqrt(x) is -scale_param * np.sqrt(x), PlusSqrt(x) is      *)
(* scale_param * np.sqrt(x); the root of a negative number is nan.         *)
(***************************************************************************)
RAbs(q) == <<Abs(q[1]), q[2]>>

MinusSqrt(x) ==
    IF x[1] < 0 THEN NaN ELSE [nan |-> FALSE, neg |-> x[1] # 0, sq |-> x]

PlusSqrt(x) ==
    IF x[1] < 0 THEN NaN ELSE [nan |-> FALSE, neg |-> FALSE, sq |-> x]

np_abs_omitted(d) == d

np_abs(d) == [d EXCEPT !.neg = FALSE]

(***************************************************************************)
(* One iteration of get_penetration_depth's loop, lines 332-358.           *)
(***************************************************************************)
\* line 339
index_out_of_range_or_negative(per_index, zeta) ==
    per_index >= Len(zeta.freq) \/ per_index < 0

index_out_of_range_strict(per_index, zeta) == per_index > Len(zeta.freq)

index_out_of_range(per_index, zeta) == per_index >= Len(zeta.freq)

\* lines 346-356: the depth for the selector, or sys.exit(100)
penetration_depth_default_det(zeta, per_index, per, whichrho) ==
    IF whichrho = "zxy"
    THEN [exit |-> FALSE,
          value |-> MinusSqrt(RMul(PyGet(zeta.resistivity, per_index).xy, per))]
    ELSE IF whichrho = "zyx"
    THEN [exit |-> FALSE,
          value |-> MinusSqrt(RMul(PyGet(zeta.resistivity, per_index).yx, per))]
    ELSE LET det2 == RAbs(PyGet(zeta.det, per_index))
         IN  [exit |-> FALSE,
              value |-> MinusSqrt(RMul(RMul(RMul(<<1, 5>>, per), det2), per))]

penetration_depth(zeta, per_index, per, whichrho) ==
    IF whichrho = "zxy"
    THEN [exit |-> FALSE,
          value |-> MinusSqrt(RMul(PyGet(zeta.resistivity, per_index).xy, per))]
    ELSE IF whichrho = "zyx"
    THEN [exit |-> FALSE,
          value |-> MinusSqrt(RMul(PyGet(zeta.resistivity, per_index).yx, per))]
    ELSE IF whichrho = "det"
    THEN LET det2 == RAbs(PyGet(zeta.det, per_index))
         IN  [exit |-> FALSE,
              value |-> MinusSqrt(RMul(RMul(RMul(<<1, 5>>, per), det2), per))]
    ELSE [exit |-> TRUE, value |-> NaN]

(***************************************************************************)
(* Calls.  A function called directly starts at its first line with its    *)
(* arguments; the script starts at the __main__ block with its command     *)
(* line.  An argument of the command line is a token: its text is an       *)
(* integer literal or it is not, and int() of it is the value or raises    *)
(* ValueError.                                                             *)
(***************************************************************************)
IntToken(n) == [isint |-> TRUE, value |-> n]
WordToken == [isint |-> FALSE, value |-> 0]
PathToken == WordToken

PeriodIndexes == (-MaxIndex)..MaxIndex
Directories == SeqsUpTo(EdiFiles, MaxStations)
CsvFiles == {f \in EdiFiles : f.Z.det[1] = <<20, 1>>}
CsvDirectories == SeqsUpTo(CsvFiles, MaxCsvStations)
CommandLines ==
    {<<>>, <<PathToken>>, <<PathToken, WordToken>>}
        \cup {<<PathToken, IntToken(n)>> : n \in PeriodIndexes}

Entries == {"plot_latlon_depth_profile", "plot_gridded_profile", "plot_bar3d_depth",
            "create_csv_file", "__main__"}

Init ==
    /\ entry \in Entries
    /\ args = <<>>
    /\ files \in (IF entry = "create_csv_file" THEN CsvDirectories ELSE Directories)
    /\ IF entry = "__main__"
       THEN /\ argv \in CommandLines
            /\ isdir \in BOOLEAN
            /\ (~isdir \/ argv = <<>>) => files = <<>>
            /\ fn = "none" /\ period_index = 0 /\ zcomponent = "det"
            /\ pc = "main"
       ELSE /\ argv = <<>>
            /\ isdir = TRUE
            /\ fn = entry
            /\ period_index \in (IF entry = "create_csv_file" THEN {0} ELSE PeriodIndexes)
            /\ zcomponent \in (IF entry = "plot_bar3d_depth" THEN {"zxy"} ELSE Selectors)
            /\ pc = "glob"
    /\ outcome = Running /\ ret = <<>>
    /\ LocalsInit

\* the call ends: by an exception, by sys.exit, or by returning
Stop(how) ==
    /\ outcome' = how
    /\ pc' = "done"

(***************************************************************************)
(* The __main__ block, lines 600-614.                                      *)
(***************************************************************************)
\* line 602: sys.argv holds the script name and then argv
too_few_arguments(arguments) == Len(arguments) + 1 < 2

main ==
    /\ pc = "main"
    /\ IF too_few_arguments(argv)
       THEN Stop(Exited(exit_usage)) /\ UNCHANGED callvars
       ELSE IF isdir
       THEN IF Len(argv) < 2
            THEN Stop(Raised("IndexError", "__main__")) /\ UNCHANGED callvars
            ELSE IF ~argv[2].isint
            THEN Stop(Raised("ValueError", "__main__")) /\ UNCHANGED callvars
            ELSE /\ fn' = "plot_latlon_depth_profile"
                 /\ period_index' = argv[2].value
                 /\ zcomponent' = "det"
                 /\ pc' = "glob"
                 /\ UNCHANGED outcome
       ELSE Stop(Returned) /\ UNCHANGED callvars
    /\ UNCHANGED <<inputs, decolocals, ret, looplocals, plotlocals, csvlocals>>

(***************************************************************************)
(* plot_latlon_depth_profile, lines 38-162, and plot_gridded_profile,      *)
(* lines 165-264.                                                          *)
(***************************************************************************)
PlotFns == {"plot_latlon_depth_profile", "plot_gridded_profile"}

\* lines 51-55, 178-182: list the files and call get_penetration_depth
plot_glob ==
    /\ pc = "glob" /\ fn \in PlotFns
    /\ edifiles' = files
    /\ k' = 1
    /\ pc' = "gpd_loop"
    /\ UNCHANGED <<inputs, decolocals, callvars, outcome, ret, stations, periods, pendep, latlons,
                   plotlocals, csvlocals>>

\* lines 331-358: one file
get_penetration_depth_loop_selector_first ==
    /\ pc = "gpd_loop" /\ k <= Len(edifiles)
    /\ LET mt_obj == edifiles[k]
           zeta == mt_obj.Z
           per == RInv(PyGet(zeta.freq, period_index))
           d == penetration_depth(zeta, period_index, per, zcomponent)
       IN  /\ stations' = Append(stations, mt_obj.station)
           /\ latlons' = Append(latlons, <<mt_obj.lat, mt_obj.lon>>)
           /\ IF zcomponent \notin Supported
              THEN /\ Stop(Exited(exit_unsupported))
                   /\ UNCHANGED <<periods, pendep, k>>
              ELSE IF index_out_of_range(period_index, zeta)
              THEN /\ Stop(Raised("Exception", "get_penetration_depth"))
                   /\ UNCHANGED <<periods, pendep, k>>
              ELSE IF ~PyInRange(zeta.freq, period_index)
              THEN /\ Stop(Raised("IndexError", "get_penetration_depth"))
                   /\ UNCHANGED <<periods, pendep, k>>
              ELSE /\ periods' = Append(periods, per)
                   /\ IF d.exit
                      THEN /\ Stop(Exited(exit_unsupported))
                           /\ UNCHANGED <<pendep, k>>
                      ELSE /\ pendep' = Append(pendep, d.value)
                           /\ k' = k + 1
                           /\ UNCHANGED <<pc, outcome>>
    /\ UNCHANGED <<inputs, decolocals, callvars, ret, edifiles, plotlocals, csvlocals>>

get_penetration_depth_loop ==
    /\ pc = "gpd_loop" /\ k <= Len(edifiles)
    /\ LET mt_obj == edifiles[k]
           zeta == mt_obj.Z
           per == RInv(PyGet(zeta.freq, period_index))
           d == penetration_depth(zeta, period_index, per, zcomponent)
       IN  /\ stations' = Append(stations, mt_obj.station)
           /\ latlons' = Append(latlons, <<mt_obj.lat, mt_obj.lon>>)
           /\ IF index_out_of_range(period_index, zeta)
              THEN /\ Stop(Raised("Exception", "get_penetration_depth"))
                   /\ UNCHANGED <<periods, pendep, k>>
              ELSE IF ~PyInRange(zeta.freq, period_index)
              THEN /\ Stop(Raised("IndexError", "get_penetration_depth"))
                   /\ UNCHANGED <<periods, pendep, k>>
              ELSE /\ periods' = Append(periods, per)
                   /\ IF d.exit
                      THEN /\ Stop(Exited(exit_unsupported))
                           /\ UNCHANGED <<pendep, k>>
                      ELSE /\ pendep' = Append(pendep, d.value)
                           /\ k' = k + 1
                           /\ UNCHANGED <<pc, outcome>>
    /\ UNCHANGED <<inputs, decolocals, callvars, ret, edifiles, plotlocals, csvlocals>>

\* lines 360-362: after the loop
get_penetration_depth_return ==
    /\ pc = "gpd_loop" /\ k > Len(edifiles)
    /\ IF check_period_values(periods).raised
       THEN Stop(Raised("IndexError", "check_period_values"))
       ELSE /\ pc' = IF fn = "plot_latlon_depth_profile" THEN "check" ELSE "grid"
            /\ UNCHANGED outcome
    /\ UNCHANGED <<inputs, decolocals, callvars, ret, looplocals, plotlocals, csvlocals>>

\* lines 57-63 of plot_latlon_depth_profile
plot_latlon_check ==
    /\ pc = "check"
    /\ LET r == check_period_values(periods)
       IN  IF r.raised
           THEN Stop(Raised("IndexError", "check_period_values"))
           ELSE IF r.value = FALSE
           THEN Stop(Raised("Exception", "plot_latlon_depth_profile"))
           ELSE IF periods = <<>>
           THEN Stop(Raised("IndexError", "plot_latlon_depth_profile"))
           ELSE pc' = "grid" /\ UNCHANGED outcome
    /\ UNCHANGED <<inputs, decolocals, callvars, ret, looplocals, plotlocals, csvlocals>>

\* lines 64-98, 184-219: the bounding box and the grid of nan
ZeroDepth == [nan |-> FALSE, neg |-> FALSE, sq |-> <<0, 1>>]

ZerosGrid(ny2, nx2) ==
    [shape |-> <<ny2, nx2>>,
     cells |-> [rc \in (0..(ny2 - 1)) \X (0..(nx2 - 1)) |-> ZeroDepth]]

NanGrid(ny2, nx2) ==
    [shape |-> <<ny2, nx2>>,
     cells |-> [rc \in (0..(ny2 - 1)) \X (0..(nx2 - 1)) |-> NaN]]

plot_grid_unpadded ==
    /\ pc = "grid"
    /\ LET b == get_bounding_box(latlons)
           xgrids == b.value[1][2] - b.value[1][1]
           ygrids == b.value[2][2] - b.value[2][1]
           nx == Ceil(xgrids, pixelsize)
           ny == Ceil(ygrids, pixelsize)
       IN  IF b.raised
           THEN Stop(Raised("ValueError", "get_bounding_box"))
                /\ UNCHANGED <<bbox, zdep, k>>
           ELSE /\ bbox' = b.value
                /\ zdep' = NanGrid(ny, nx)
                /\ k' = 1
                /\ pc' = "compose"
                /\ UNCHANGED outcome
    /\ UNCHANGED <<inputs, decolocals, callvars, ret, edifiles, stations, periods, pendep, latlons,
                   points, values, shown, csvlocals>>

plot_grid ==
    /\ pc = "grid"
    /\ LET b == get_bounding_box(latlons)
           xgrids == b.value[1][2] - b.value[1][1]
           ygrids == b.value[2][2] - b.value[2][1]
           nx == Ceil(xgrids, pixelsize)
           ny == Ceil(ygrids, pixelsize)
       IN  IF b.raised
           THEN Stop(Raised("ValueError", "get_bounding_box"))
                /\ UNCHANGED <<bbox, zdep, k>>
           ELSE /\ bbox' = b.value
                /\ zdep' = NanGrid(ny + pad, nx + pad)
                /\ k' = 1
                /\ pc' = "compose"
                /\ UNCHANGED outcome
    /\ UNCHANGED <<inputs, decolocals, callvars, ret, edifiles, stations, periods, pendep, latlons,
                   points, values, shown, csvlocals>>

\* a[i] of numpy along an axis of length n: the position read or written
NpAxis(i, n) == IF i >= 0 THEN i ELSE n + i
NpAxisOk(i, n) == -n <= i /\ i < n

\* lines 100-103, 221-224: one station
plot_compose_unflipped ==
    /\ pc = "compose" /\ k <= Len(latlons)
    /\ LET pair == latlons[k]
           minlat == bbox[2][1]
           minlon == bbox[1][1]
           idx == get_index(pair[1], pair[2], minlat, minlon, pixelsize, get_index_offset)
           xi == idx[1]
           yi == idx[2]
       IN  IF NpAxisOk(yi, zdep.shape[1]) /\ NpAxisOk(xi, zdep.shape[2])
           THEN /\ zdep' = [zdep EXCEPT
                              !.cells[<<NpAxis(yi, zdep.shape[1]), NpAxis(xi, zdep.shape[2])>>]
                                  = np_abs(pendep[k])]
                /\ k' = k + 1
                /\ UNCHANGED <<pc, outcome>>
           ELSE Stop(Raised("IndexError", fn)) /\ UNCHANGED <<zdep, k>>
    /\ UNCHANGED <<inputs, decolocals, callvars, ret, edifiles, stations, periods, pendep, latlons,
                   bbox, points, values, shown, csvlocals>>

plot_compose_keep_first ==
    /\ pc = "compose" /\ k <= Len(latlons)
    /\ LET pair == latlons[k]
           minlat == bbox[2][1]
           minlon == bbox[1][1]
           idx == get_index(pair[1], pair[2], minlat, minlon, pixelsize, get_index_offset)
           xi == idx[1]
           yi == idx[2]
           row == zdep.shape[1] - yi - 1
           cell == <<NpAxis(row, zdep.shape[1]), NpAxis(xi, zdep.shape[2])>>
       IN  IF NpAxisOk(row, zdep.shape[1]) /\ NpAxisOk(xi, zdep.shape[2])
           THEN /\ zdep' = IF zdep.cells[cell] = NaN
                            THEN [zdep EXCEPT !.cells[cell] = np_abs(pendep[k])]
                            ELSE zdep
                /\ k' = k + 1
                /\ UNCHANGED <<pc, outcome>>
           ELSE Stop(Raised("IndexError", fn)) /\ UNCHANGED <<zdep, k>>
    /\ UNCHANGED <<inputs, decolocals, callvars, ret, edifiles, stations, periods, pendep, latlons,
                   bbox, points, values, shown, csvlocals>>

plot_compose ==
    /\ pc = "compose" /\ k <= Len(latlons)
    /\ LET pair == latlons[k]
           minlat == bbox[2][1]
           minlon == bbox[1][1]
           idx == get_index(pair[1], pair[2], minlat, minlon, pixelsize, get_index_offset)
           xi == idx[1]
           yi == idx[2]
           row == zdep.shape[1] - yi - 1
       IN  IF NpAxisOk(row, zdep.shape[1]) /\ NpAxisOk(xi, zdep.shape[2])
           THEN /\ zdep' = [zdep EXCEPT
                              !.cells[<<NpAxis(row, zdep.shape[1]), NpAxis(xi, zdep.shape[2])>>]
                                  = np_abs(pendep[k])]
                /\ k' = k + 1
                /\ UNCHANGED <<pc, outcome>>
           ELSE Stop(Raised("IndexError", fn)) /\ UNCHANGED <<zdep, k>>
    /\ UNCHANGED <<inputs, decolocals, callvars, ret, edifiles, stations, periods, pendep, latlons,
                   bbox, points, values, shown, csvlocals>>

\* lines 105-109, 226-230: the first image
plot_show_grid ==
    /\ pc = "compose" /\ k > Len(latlons)
    /\ shown' = shown + 1
    /\ pc' = "interp"
    /\ UNCHANGED <<inputs, decolocals, callvars, outcome, ret, looplocals, bbox, zdep, points, values,
                   csvlocals>>

\* lines 118-134, 233-251: the sample points and values, and scipy's griddata,
\* which returns a surface or raises (QhullError)
SamplePoints ==
    [i \in 1..Len(latlons) |->
        LET idx == get_index(latlons[i][1], latlons[i][2], bbox[2][1], bbox[1][1],
                             pixelsize, get_index_offset)
        IN  <<zdep.shape[1] - idx[2], idx[1]>>]

SampleValues == [i \in 1..Len(latlons) |-> np_abs(pendep[i])]

plot_interpolate ==
    /\ pc = "interp"
    /\ points' = SamplePoints
    /\ values' = SampleValues
    /\ \/ pc' = "surface" /\ UNCHANGED outcome
       \/ Stop(Raised("QhullError", "griddata"))
    /\ UNCHANGED <<inputs, decolocals, callvars, ret, looplocals, bbox, zdep, shown, csvlocals>>

\* lines 137-162, 253-264: the second image
plot_show_surface ==
    /\ pc = "surface"
    /\ shown' = shown + 1
    /\ Stop(Returned)
    /\ UNCHANGED <<inputs, decolocals, callvars, ret, looplocals, bbox, zdep, points, values,
                   csvlocals>>

(***************************************************************************)
(* plot_bar3d_depth, lines 385-496.                                        *)
(***************************************************************************)
\* lines 397-411: edifiles is a directory, list its files
bar3d_glob ==
    /\ pc = "glob" /\ fn = "plot_bar3d_depth"
    /\ edifiles' = files
    /\ k' = 1
    /\ pc' = "bar3d_loop"
    /\ UNCHANGED <<inputs, decolocals, callvars, outcome, ret, stations, periods, pendep, latlons,
                   plotlocals, csvlocals>>

\* lines 413-429: one file
bar3d_loop ==
    /\ pc = "bar3d_loop" /\ k <= Len(edifiles)
    /\ LET mt_obj == edifiles[k]
           zeta == mt_obj.Z
           per == RInv(PyGet(zeta.freq, period_index))
           d == MinusSqrt(RMul(PyGet(zeta.resistivity, period_index).xy, per))
       IN  /\ latlons' = Append(latlons, <<mt_obj.lat, mt_obj.lon>>)
           /\ IF period_index >= Len(zeta.freq)
              THEN /\ Stop(Raised("Exception", "plot_bar3d_depth"))
                   /\ UNCHANGED <<periods, pendep, stations, k>>
              ELSE IF ~PyInRange(zeta.freq, period_index)
              THEN /\ Stop(Raised("IndexError", "plot_bar3d_depth"))
                   /\ UNCHANGED <<periods, pendep, stations, k>>
              ELSE /\ periods' = Append(periods, per)
                   /\ pendep' = Append(pendep, d)
                   /\ stations' = Append(stations, mt_obj.station)
                   /\ k' = k + 1
                   /\ UNCHANGED <<pc, outcome>>
    /\ UNCHANGED <<inputs, decolocals, callvars, ret, edifiles, plotlocals, csvlocals>>

\* lines 433-449: the bounds of the stations
bar3d_bounds ==
    /\ pc = "bar3d_loop" /\ k > Len(edifiles)
    /\ LET lats == [i \in 1..Len(latlons) |-> latlons[i][1]]
           lons == [i \in 1..Len(latlons) |-> latlons[i][2]]
       IN  IF latlons = <<>>
           THEN Stop(Raised("ValueError", "plot_bar3d_depth")) /\ UNCHANGED bbox
           ELSE /\ bbox' = <<<<PyMin(lons), PyMax(lons)>>, <<PyMin(lats), PyMax(lats)>>>>
                /\ pc' = "bars"
                /\ UNCHANGED outcome
    /\ UNCHANGED <<inputs, decolocals, callvars, ret, looplocals, zdep, points, values, shown,
                   csvlocals>>

\* lines 451-496: the bars, the title and the image
bar3d_show ==
    /\ pc = "bars"
    /\ LET LL_lat == bbox[2][1] - bar3d_offset * bar3d_pixelsize
           LL_lon == bbox[1][1] - bar3d_offset * bar3d_pixelsize
       IN  /\ points' = [i \in 1..Len(latlons) |->
                           get_index(latlons[i][1], latlons[i][2], LL_lat, LL_lon,
                                     bar3d_pixelsize, get_index_offset)]
           /\ values' = [i \in 1..Len(latlons) |-> np_abs(pendep[i])]
    /\ IF periods = <<>>
       THEN Stop(Raised("IndexError", "plot_bar3d_depth")) /\ UNCHANGED shown
       ELSE Stop(Returned) /\ shown' = shown + 1
    /\ UNCHANGED <<inputs, decolocals, callvars, ret, looplocals, bbox, zdep, csvlocals>>

(***************************************************************************)
(* create_csv_file, lines 535-579, and                                     *)
(* get_penetration_depths_from_edi_file, lines 500-532.                    *)
(***************************************************************************)
\* lines 517-532: every period of the file and the depth at each; a later
\* selector of zxy, zyx, det overwrites an earlier one, and with none of them
\* penetration_depth is unbound at line 531
get_penetration_depths_from_edi_file_signed_det(edifile, rholist) ==
    LET zeta == edifile.Z
        n == Len(zeta.freq)
        pers == [i \in 1..n |-> RInv(zeta.freq[i])]
        zxy == [i \in 1..n |-> PlusSqrt(RMul(zeta.resistivity[i].xy, pers[i]))]
        zyx == [i \in 1..n |-> PlusSqrt(RMul(zeta.resistivity[i].yx, pers[i]))]
        det == [i \in 1..n |->
                   PlusSqrt(RMul(RMul(RMul(<<1, 5>>, pers[i]), zeta.det[i]), pers[i]))]
    IN  [raised |-> rholist \cap Supported = {},
         lat |-> edifile.lat, lon |-> edifile.lon, periods |-> pers,
         depths |-> IF "det" \in rholist THEN det
                    ELSE IF "zyx" \in rholist THEN zyx
                    ELSE IF "zxy" \in rholist THEN zxy
                    ELSE <<>>]

get_penetration_depths_from_edi_file(edifile, rholist) ==
    LET zeta == edifile.Z
        n == Len(zeta.freq)
        pers == [i \in 1..n |-> RInv(zeta.freq[i])]
        zxy == [i \in 1..n |-> PlusSqrt(RMul(zeta.resistivity[i].xy, pers[i]))]
        zyx == [i \in 1..n |-> PlusSqrt(RMul(zeta.resistivity[i].yx, pers[i]))]
        det == [i \in 1..n |->
                   PlusSqrt(RMul(RMul(RMul(<<1, 5>>, pers[i]), RAbs(zeta.det[i])), pers[i]))]
    IN  [raised |-> rholist \cap Supported = {},
         lat |-> edifile.lat, lon |-> edifile.lon, periods |-> pers,
         depths |-> IF "det" \in rholist THEN det
                    ELSE IF "zyx" \in rholist THEN zyx
                    ELSE IF "zxy" \in rholist THEN zxy
                    ELSE <<>>]

\* line 554: the call passes no rholist, so the default ['det'] is used
csv_rholist(component) == {"det"}

\* '%.2f' % num: the depth written with two decimals
Fixed2(num) == [fmt |-> "%.2f", num |-> num]

\* lines 557, 561: the depths of a file joined by commas
depth_string_first_only(depths) == <<Fixed2(depths[1])>>

depth_string(depths) == [i \in 1..Len(depths) |-> Fixed2(depths[i])]

\* lines 555-566: what is done with a file's periods per: the first file sets
\* the reference, an equal list is exported, any other is logged and skipped
\* (csv_policy_raise: with the raise of line 565 in place of the skip)
csv_policy_export_all(ref, per) == IF ref.none THEN "first" ELSE "export"

csv_policy_raise(ref, per) ==
    IF ref.none THEN "first"
    ELSE IF Len(per) = Len(ref.value) /\ \A i \in 1..Len(per) : per[i] = ref.value[i]
    THEN "export"
    ELSE "raise"

csv_policy(ref, per) ==
    IF ref.none THEN "first"
    ELSE IF Len(per) = Len(ref.value) /\ \A i \in 1..Len(per) : per[i] = ref.value[i]
    THEN "export"
    ELSE "skip"

\* lines 545-550
csv_glob ==
    /\ pc = "glob" /\ fn = "create_csv_file"
    /\ edifiles' = files
    /\ k' = 1
    /\ PER_LIST0' = PyNone
    /\ latlon_dep' = <<>>
    /\ pc' = "csv_loop"
    /\ UNCHANGED <<inputs, decolocals, callvars, outcome, ret, stations, periods, pendep, latlons,
                   plotlocals, csvfile>>

\* lines 551-566: one file
csv_loop ==
    /\ pc = "csv_loop" /\ k <= Len(edifiles)
    /\ LET r == get_penetration_depths_from_edi_file(edifiles[k], csv_rholist(zcomponent))
           todo == csv_policy(PER_LIST0, r.periods)
           row == <<r.lat, r.lon, depth_string(r.depths)>>
       IN  IF r.raised
           THEN /\ Stop(Raised("UnboundLocalError", "get_penetration_depths_from_edi_file"))
                /\ UNCHANGED <<k, PER_LIST0, latlon_dep>>
           ELSE IF todo = "raise"
           THEN /\ Stop(Raised("Exception", "create_csv_file"))
                /\ UNCHANGED <<k, PER_LIST0, latlon_dep>>
           ELSE /\ PER_LIST0' = IF todo = "first" THEN Some(r.periods) ELSE PER_LIST0
                /\ latlon_dep' = IF todo \in {"first", "export"}
                                 THEN Append(latlon_dep, row) ELSE latlon_dep
                /\ k' = k + 1
                /\ UNCHANGED <<pc, outcome>>
    /\ UNCHANGED <<inputs, decolocals, callvars, ret, edifiles, stations, periods, pendep, latlons,
                   plotlocals, csvfile>>

\* lines 571-579: write the rows and return them (the output path is writable)
csv_write_skips_empty ==
    /\ pc = "csv_loop" /\ k > Len(edifiles)
    /\ csvfile' = IF latlon_dep = <<>> THEN csvfile
                  ELSE [written |-> TRUE, rows |-> latlon_dep]
    /\ ret' = latlon_dep
    /\ Stop(Returned)
    /\ UNCHANGED <<inputs, decolocals, callvars, looplocals, plotlocals, PER_LIST0, latlon_dep>>

csv_write ==
    /\ pc = "csv_loop" /\ k > Len(edifiles)
    /\ csvfile' = [written |-> TRUE, rows |-> latlon_dep]
    /\ ret' = latlon_dep
    /\ Stop(Returned)
    /\ UNCHANGED <<inputs, decolocals, callvars, looplocals, plotlocals, PER_LIST0, latlon_dep>>

(***************************************************************************)
(* The program: one call, run to its end.                                  *)
(***************************************************************************)
Next ==
    \/ main
    \/ plot_glob
    \/ get_penetration_depth_loop
    \/ get_penetration_depth_return
    \/ plot_latlon_check
    \/ plot_grid
    \/ plot_compose
    \/ plot_show_grid
    \/ plot_interpolate
    \/ plot_show_surface
    \/ bar3d_glob
    \/ bar3d_loop
    \/ bar3d_bounds
    \/ bar3d_show
    \/ csv_glob
    \/ csv_loop
    \/ csv_write

Spec == Init /\ [][Next]_vars

(***************************************************************************)
(* C5: in the plotting path, when the stations' periods at the requested   *)
(* index are not all equal, the plotting operation raises an error and     *)
(* stops before any grid is composed or rendered, for each of              *)
(* plot_latlon_depth_profile, plot_gridded_profile and plot_bar3d_depth.   *)
(***************************************************************************)
PlottingFns == {"plot_latlon_depth_profile", "plot_gridded_profile", "plot_bar3d_depth"}

C5_PeriodsDiffer == \E i \in DOMAIN periods : periods[i] # periods[1]

C5_MismatchStopsPlot ==
    (fn \in PlottingFns /\ C5_PeriodsDiffer) =>
        /\ zdep = NoGrid /\ points = <<>> /\ shown = 0
        /\ (pc = "done" => outcome.kind = "raised")

(***************************************************************************)
(* C6: create_csv_file never fails on a period mismatch: a station whose   *)
(* period list differs, in length or in a value, from the reference list   *)
(* (the first file's) is left out of the table, the remaining stations are *)
(* still processed, and every station whose period list equals the         *)
(* reference is exported.                                                  *)
(***************************************************************************)
C6_PeriodList(f) == [i \in 1..Len(f.Z.freq) |-> RInv(f.Z.freq[i])]

\* the (lat, lon) of the files among the first n whose periods equal the first file's
RECURSIVE C6_Exported(_)
C6_Exported(n) ==
    IF n = 0 THEN <<>>
    ELSE IF C6_PeriodList(files[n]) = C6_PeriodList(files[1])
         THEN Append(C6_Exported(n - 1), <<files[n].lat, files[n].lon>>)
         ELSE C6_Exported(n - 1)

C6_LatLonOf(rows) == [i \in 1..Len(rows) |-> <<rows[i][1], rows[i][2]>>]

C6_CsvSkipsMismatch ==
    (fn = "create_csv_file") =>
        /\ outcome.kind \in {"running", "returned"}
        /\ (pc = "csv_loop" => C6_LatLonOf(latlon_dep) = C6_Exported(k - 1))
        /\ (pc = "done" =>
               /\ outcome.kind = "returned"
               /\ k = Len(files) + 1
               /\ C6_LatLonOf(ret) = C6_Exported(Len(files))
               /\ csvfile = [written |-> TRUE, rows |-> ret])

\* the second file's periods differ from the first's and it is left out, the
\* third file's equal them and it is exported after the skip
C6_Witness ==
    /\ fn = "create_csv_file" /\ pc = "done" /\ outcome.kind = "returned"
    /\ Len(files) = 3
    /\ C6_PeriodList(files[2]) # C6_PeriodList(files[1])
    /\ C6_PeriodList(files[3]) = C6_PeriodList(files[1])
    /\ Len(ret) = 2

(***************************************************************************)
(* C7, as stated: whenever the requested index is >= the number of         *)
(* frequencies of some station of the list, whatever its position,         *)
(* get_penetration_depth raises the index error and returns no partial     *)
(* result, so the plotting operation plots nothing.                        *)
(***************************************************************************)
C7_SomeStationShort == \E i \in DOMAIN files : period_index >= Len(files[i].Z.freq)

C7_NothingReturnedOrPlotted ==
    /\ pc \in {"glob", "gpd_loop", "done"}
    /\ zdep = NoGrid /\ points = <<>> /\ shown = 0

C7_IndexErrorRaised ==
    (fn \in PlotFns /\ C7_SomeStationShort) =>
        /\ C7_NothingReturnedOrPlotted
        /\ (pc = "done" => outcome = Raised("Exception", "get_penetration_depth"))

(***************************************************************************)
(* C7, amended: whenever the requested index is >= the number of           *)
(* frequencies of some station of the list, whatever its position,         *)
(* get_penetration_depth returns no partial result and the plotting        *)
(* operation plots nothing; it raises the index error, except that with a  *)
(* selector outside {zxy, zyx, det} and a first station for which the      *)
(* index is valid the process exits with status 100 instead.               *)
(***************************************************************************)
C7_IndexErrorOrExit ==
    (fn \in PlotFns /\ C7_SomeStationShort) =>
        /\ C7_NothingReturnedOrPlotted
        /\ (pc = "done" =>
               IF zcomponent \in {"zxy", "zyx", "det"}
                  \/ period_index >= Len(files[1].Z.freq)
               THEN outcome = Raised("Exception", "get_penetration_depth")
               ELSE outcome = Exited(100))

\* the index is valid for the first station and too large for the second
C7_Witness ==
    /\ fn \in PlotFns /\ pc = "done"
    /\ Len(files) = 2
    /\ period_index < Len(files[1].Z.freq) /\ period_index >= Len(files[2].Z.freq)
    /\ outcome = Raised("Exception", "get_penetration_depth")
    /\ Len(periods) = 1 /\ Len(latlons) = 2

(***************************************************************************)
(* C8: with a non-empty station list, an index valid for every station and *)
(* a selector outside {zxy, zyx, det}, get_penetration_depth ends the      *)
(* process with exit status 100 and returns no result.                     *)
(***************************************************************************)
C8_IndexValidEverywhere ==
    \A i \in DOMAIN files :
        -Len(files[i].Z.freq) <= period_index /\ period_index < Len(files[i].Z.freq)

C8_UnsupportedSelectorExits ==
    (/\ fn \in PlotFns
     /\ files # <<>>
     /\ C8_IndexValidEverywhere
     /\ zcomponent \notin {"zxy", "zyx", "det"}) =>
        /\ pc \in {"glob", "gpd_loop", "done"}
        /\ ret = <<>> /\ zdep = NoGrid /\ shown = 0
        /\ (pc = "done" => outcome = Exited(100))

C8_Witness ==
    /\ fn \in PlotFns /\ pc = "done"
    /\ Len(files) = 2 /\ C8_IndexValidEverywhere
    /\ zcomponent = "zxx"
    /\ outcome.kind = "exit" /\ outcome.status = 100
    /\ Len(periods) = 1 /\ pendep = <<>>

(***************************************************************************)
(* C9: the command-line entry point exits with status 1, without running   *)
(* any plot, whenever fewer than two positional arguments (station_dir and *)
(* frequency_index) are given.  The status of the process is that of       *)
(* sys.exit, 1 after an uncaught exception and 0 at the end of the script. *)
(***************************************************************************)
C9_ExitStatus ==
    IF outcome.kind = "exit" THEN outcome.status
    ELSE IF outcome.kind = "raised" THEN 1
    ELSE 0

C9_TooFewArgumentsExit1 ==
    (entry = "__main__" /\ Len(argv) < 2) =>
        /\ fn = "none" /\ shown = 0
        /\ (pc = "done" => C9_ExitStatus = 1)

(***************************************************************************)
(* C10: when the station directory holds no station files, the plotting    *)
(* operations fail with an error and plot nothing:                         *)
(* plot_latlon_depth_profile and plot_gridded_profile in the               *)
(* check_period_values call of get_penetration_depth (IndexError),         *)
(* plot_bar3d_depth at min() of the empty list (ValueError).               *)
(***************************************************************************)
C10_EmptyDirectoryFails ==
    (fn \in PlottingFns /\ files = <<>>) =>
        /\ pc \in {"glob", "gpd_loop", "bar3d_loop", "done"}
        /\ zdep = NoGrid /\ points = <<>> /\ shown = 0
        /\ (pc = "done" =>
               outcome = IF fn = "plot_bar3d_depth"
                         THEN Raised("ValueError", "plot_bar3d_depth")
                         ELSE Raised("IndexError", "check_period_values"))

C10_Witness ==
    /\ fn = "plot_gridded_profile" /\ files = <<>>
    /\ pc = "done" /\ outcome.kind = "raised"
    /\ edifiles = <<>> /\ shown = 0

(***************************************************************************)
(* C11: get_bounding_box called with an empty list of coordinates fails    *)
(* with an error (min() of an empty list raises ValueError) and returns no *)
(* box.                                                                    *)
(***************************************************************************)
C11_EmptyListRaises ==
    (entry = "get_bounding_box" /\ pc = "done" /\ args.latlons = <<>>) =>
        /\ outcome = Raised("ValueError", "get_bounding_box")
        /\ ret = <<>>

C11_Witness ==
    /\ entry = "get_bounding_box" /\ pc = "done"
    /\ Len(args.latlons) = 0
    /\ outcome.kind = "raised" /\ outcome.exc = "ValueError"

(***************************************************************************)
(* The two gridded plots called on a directory of nearby sites: every file *)
(* has the one frequency 0.125 Hz, and the sites are close enough that two *)
(* of them can fall into one pixel ((3, 1) and (4, 1) do when (0, 0) is    *)
(* the corner of the box).                                                 *)
(***************************************************************************)
GridFreqs == <<<<1, 8>>>>
GridCoords == {<<0, 0>>, <<3, 1>>, <<4, 1>>, <<4, 4>>}
GridFiles == {EdiFile(c, GridFreqs, r) : c \in GridCoords, r \in Rhos}
GridDirectories == SeqsUpTo(GridFiles, MaxGridStations)

InitPlot ==
    /\ entry \in PlotFns
    /\ args = <<>> /\ argv = <<>> /\ isdir = TRUE
    /\ files \in GridDirectories
    /\ fn = entry
    /\ period_index = 0
    /\ zcomponent \in Supported
    /\ pc = "glob"
    /\ outcome = Running /\ ret = <<>>
    /\ LocalsInit

NextPlot ==
    \/ plot_glob
    \/ get_penetration_depth_loop
    \/ get_penetration_depth_return
    \/ plot_latlon_check
    \/ plot_grid
    \/ plot_compose
    \/ plot_show_grid
    \/ plot_interpolate
    \/ plot_show_surface

SpecPlot == InitPlot /\ [][NextPlot]_vars

(***************************************************************************)
(* What the claims about the grid say of station i of the directory, in    *)
(* the claims' own words: its indices from the least latitude and          *)
(* longitude of the directory, its cell in a grid of the height the grid   *)
(* has, and the magnitude of its depth.                                    *)
(***************************************************************************)
LeastOf(S) == CHOOSE m \in S : \A x \in S : m <= x
GreatestOf(S) == CHOOSE m \in S : \A x \in S : x <= m
StationLats == {latlons[i][1] : i \in DOMAIN latlons}
StationLons == {latlons[i][2] : i \in DOMAIN latlons}
StationIx(i) == Round(latlons[i][2] - LeastOf(StationLons), pixelsize) + 1
StationIy(i) == Round(latlons[i][1] - LeastOf(StationLats), pixelsize) + 1
StationCell(i) == <<zdep.shape[1] - StationIy(i) - 1, StationIx(i)>>
Magnitude(d) == [nan |-> d.nan, neg |-> FALSE, sq |-> d.sq]
SameCell(i, j) == StationIx(i) = StationIx(j) /\ StationIy(i) = StationIy(j)
LastInCell(j) == \A m \in DOMAIN latlons : (m > j) => ~SameCell(m, j)
AfterCompositing == fn \in PlotFns /\ zdep # NoGrid /\ k > Len(latlons)

(***************************************************************************)
(* C12: when two or more stations map to the same grid cell, after         *)
(* compositing the cell holds the magnitude of the depth of the station    *)
(* that comes last in the iteration order, and compositing raises no       *)
(* error.                                                                  *)
(***************************************************************************)
C12_LastWriteWins ==
    /\ AfterCompositing =>
           \A i, j \in DOMAIN latlons :
               (i < j /\ SameCell(i, j) /\ LastInCell(j)) =>
                   zdep.cells[StationCell(j)] = Magnitude(pendep[j])
    /\ (fn \in PlotFns /\ Len(latlons) = Len(files)
           /\ \E i, j \in DOMAIN latlons : i < j /\ SameCell(i, j)) =>
           outcome # Raised("IndexError", fn)

C12_Witness ==
    /\ AfterCompositing /\ pc = "interp" /\ outcome = Running
    /\ \E i, j \in DOMAIN latlons :
           /\ i < j /\ SameCell(i, j) /\ LastInCell(j)
           /\ latlons[i] # latlons[j]
           /\ Magnitude(pendep[i]) # Magnitude(pendep[j])
           /\ zdep.cells[StationCell(j)] = Magnitude(pendep[j])

(***************************************************************************)
(* C13: after compositing in plot_latlon_depth_profile and                 *)
(* plot_gridded_profile, for each station with (ix, iy) the indices of its *)
(* coordinate, the cell at row grid_height - iy - 1 and column ix is a     *)
(* cell of the grid and holds the magnitude of the depth of a station that *)
(* maps to it; every cell that no station maps to holds NaN, never zero.   *)
(***************************************************************************)
C13_StationCells ==
    AfterCompositing =>
        /\ \A i \in DOMAIN latlons :
               /\ StationCell(i) \in DOMAIN zdep.cells
               /\ \E j \in DOMAIN latlons :
                      /\ SameCell(i, j)
                      /\ zdep.cells[StationCell(i)] = Magnitude(pendep[j])
        /\ LET targets == {StationCell(i) : i \in DOMAIN latlons}
           IN  \A rc \in DOMAIN zdep.cells \ targets :
                   zdep.cells[rc] = NaN /\ zdep.cells[rc] # ZeroDepth

C13_Witness ==
    /\ AfterCompositing /\ pc = "interp"
    /\ Len(latlons) = 3
    /\ \A i, j \in DOMAIN latlons : SameCell(i, j) => i = j
    /\ StationCell(2) # <<StationIy(2), StationIx(2)>>
    /\ pendep[2].neg /\ zdep.cells[StationCell(2)] = Magnitude(pendep[2])
    /\ \E rc \in DOMAIN zdep.cells : zdep.cells[rc] = NaN

(***************************************************************************)
(* C14: for every selector of zxy, zyx and det and every valid period      *)
(* index, every value written to a grid cell and every sample value given  *)
(* to the interpolator is the absolute value of a computed depth, so none  *)
(* is negative, although the computed depths are.                          *)
(***************************************************************************)
C14_MagnitudesOnly ==
    (fn \in PlotFns /\ zcomponent \in Supported) =>
        /\ \A rc \in DOMAIN zdep.cells :
               /\ ~zdep.cells[rc].neg
               /\ \/ zdep.cells[rc] = NaN
                  \/ \E i \in DOMAIN pendep : zdep.cells[rc] = Magnitude(pendep[i])
        /\ \A i \in DOMAIN values :
               ~values[i].neg /\ values[i] = Magnitude(pendep[i])

C14_Witness ==
    /\ fn \in PlotFns /\ zcomponent = "det" /\ period_index = -1
    /\ pc = "surface"
    /\ Len(values) = 2 /\ pendep[2].neg /\ ~pendep[2].nan
    /\ values[2] = Magnitude(pendep[2])
    /\ \E rc \in DOMAIN zdep.cells : zdep.cells[rc] = Magnitude(pendep[2])

(***************************************************************************)
(* C15: the grid has ceil((max_lat - min_lat) / pixel_size) + pad rows and *)
(* ceil((max_lon - min_lon) / pixel_size) + pad columns, with pad = 4; so  *)
(* a single station, or several stations at one coordinate, give a grid of *)
(* 4 rows and 4 columns.  q = ceil(n / d) says q is the least integer with *)
(* q * d >= n.                                                             *)
(***************************************************************************)
IsCeiling(q, n, d) == q * d >= n /\ (q - 1) * d < n

C15_GridShape ==
    (fn \in PlotFns /\ zdep # NoGrid) =>
        LET rows == zdep.shape[1]
            cols == zdep.shape[2]
        IN  /\ IsCeiling(rows - 4, GreatestOf(StationLats) - LeastOf(StationLats), pixelsize)
            /\ IsCeiling(cols - 4, GreatestOf(StationLons) - LeastOf(StationLons), pixelsize)
            /\ pad = 4
            /\ DOMAIN zdep.cells = (0..(rows - 1)) \X (0..(cols - 1))
            /\ (\A i, j \in DOMAIN latlons : latlons[i] = latlons[j]) =>
                   zdep.shape = <<4, 4>>

C15_Witness ==
    /\ fn \in PlotFns /\ pc = "compose"
    /\ latlons = <<<<3, 1>>, <<0, 0>>>>
    /\ zdep.shape = <<6, 5>>

(***************************************************************************)
(* C16: after compositing stations whose depths are defined, the number of *)
(* populated cells (cells that do not hold NaN) equals the number of       *)
(* distinct cells the stations map to; so it equals the number of stations *)
(* (3 for three stations) whenever the stations map to pairwise distinct   *)
(* cells.                                                                  *)
(***************************************************************************)
PopulatedCells == {rc \in DOMAIN zdep.cells : zdep.cells[rc] # NaN}
StationCells == {<<StationIx(i), StationIy(i)>> : i \in DOMAIN latlons}

C16_PopulatedCount ==
    (AfterCompositing /\ \A i \in DOMAIN pendep : ~pendep[i].nan) =>
        /\ Cardinality(PopulatedCells) = Cardinality(StationCells)
        /\ (\A i, j \in DOMAIN latlons : SameCell(i, j) => i = j) =>
               Cardinality(PopulatedCells) = Len(latlons)

C16_Witness ==
    /\ AfterCompositing /\ pc = "interp"
    /\ Len(latlons) = 3 /\ \A i \in DOMAIN pendep : ~pendep[i].nan
    /\ \A i, j \in DOMAIN latlons : SameCell(i, j) => i = j
    /\ Cardinality(PopulatedCells) = 3

(***************************************************************************)
(* C17: create_csv_file returns, and writes to the file, one row           *)
(* (lat, lon, depth string) per exported station, in the order in which    *)
(* the station files are processed; the depth string of a row holds one    *)
(* value, written with two decimals, per frequency of that station.        *)
(***************************************************************************)
\* the files among the first n that are exported: the first, and every later one
\* whose periods equal the first's
RECURSIVE C17_ExportedFiles(_)
C17_ExportedFiles(n) ==
    IF n = 0 THEN <<>>
    ELSE IF C6_PeriodList(files[n]) = C6_PeriodList(files[1])
         THEN Append(C17_ExportedFiles(n - 1), files[n])
         ELSE C17_ExportedFiles(n - 1)

C17_RowOf(row, f) ==
    /\ Len(row) = 3
    /\ row[1] = f.lat /\ row[2] = f.lon
    /\ Len(row[3]) = Len(f.Z.freq)
    /\ \A i \in DOMAIN row[3] : row[3][i].fmt = "%.2f" /\ ~row[3][i].num.nan

C17_CsvRows ==
    (fn = "create_csv_file" /\ pc = "done") =>
        LET exported == C17_ExportedFiles(Len(files))
        IN  /\ outcome = Returned
            /\ csvfile.written /\ csvfile.rows = ret
            /\ Len(ret) = Len(exported)
            /\ \A i \in DOMAIN ret : C17_RowOf(ret[i], exported[i])

C17_Witness ==
    /\ fn = "create_csv_file" /\ pc = "done"
    /\ Len(files) = 3 /\ Len(ret) = 2
    /\ Len(ret[1][3]) = 2 /\ Len(ret[2][3]) = 2
    /\ <<ret[1][1], ret[1][2]>> # <<ret[2][1], ret[2][2]>>
    /\ csvfile.rows = ret

(***************************************************************************)
(* C19: for every station, the (row, column) sample point given to the     *)
(* interpolator is the grid cell the compositor populated for that         *)
(* station, row = grid_height - iy - 1 and column = ix, so that the        *)
(* surface is interpolated over the populated cells of the grid.           *)
(***************************************************************************)
C19_SamplesArePopulatedCells ==
    (fn \in PlotFns /\ pc \in {"surface", "done"} /\ points # <<>>) =>
        \A i \in DOMAIN points :
            /\ points[i] = StationCell(i)
            /\ points[i] \in PopulatedCells

(***************************************************************************)
(* C20: when several stations map to the same cell, the interpolator       *)
(* receives one sample for that cell, carrying the magnitude of the        *)
(* station composited last, so the number of samples equals the number of  *)
(* populated cells of the grid.                                            *)
(***************************************************************************)
C20_OneSamplePerCell ==
    (fn \in PlotFns /\ pc \in {"surface", "done"} /\ points # <<>>) =>
        /\ Len(points) = Cardinality(PopulatedCells)
        /\ Len(values) = Len(points)
        /\ \A i, j \in DOMAIN points : points[i] = points[j] => i = j
        /\ \A i \in DOMAIN points :
               \E j \in DOMAIN latlons :
                   /\ LastInCell(j) /\ points[i][2] = StationIx(j)
                   /\ values[i] = Magnitude(pendep[j])

(***************************************************************************)
(* C21: after compositing, every populated cell of the grid (every cell    *)
(* that does not hold NaN) is the target cell of exactly one station.      *)
(* As the code behaves: of at least one station, and of exactly one when   *)
(* no two stations map to the same cell.                                   *)
(***************************************************************************)
StationsOfCell(rc) == {i \in DOMAIN latlons : StationCell(i) = rc}

C21_ExactlyOneStation ==
    AfterCompositing =>
        \A rc \in PopulatedCells : Cardinality(StationsOfCell(rc)) = 1

C21_AtLeastOneStation ==
    AfterCompositing =>
        \A rc \in PopulatedCells :
            /\ Cardinality(StationsOfCell(rc)) >= 1
            /\ (\A i, j \in DOMAIN latlons : SameCell(i, j) => i = j) =>
                   Cardinality(StationsOfCell(rc)) = 1

C21_Witness ==
    /\ AfterCompositing /\ pc = "interp"
    /\ \E rc \in PopulatedCells : Cardinality(StationsOfCell(rc)) = 2
    /\ \E rc \in PopulatedCells : Cardinality(StationsOfCell(rc)) = 1

(***************************************************************************)
(* C22: create_csv_file computes the exported depths from the component    *)
(* of the tensor that its zcomponent argument names (det, zxy or zyx): the *)
(* depth of a row at frequency j is the root of resistivity xy (or yx)     *)
(* times the period, or of 0.2 * period * |det| * period, as zcomponent    *)
(* says, so that a station whose components differ is exported with        *)
(* different depths under different zcomponent values.                     *)
(***************************************************************************)
C22_Radicand(f, component, j) ==
    LET per == RInv(f.Z.freq[j])
    IN  IF component = "zxy" THEN RMul(f.Z.resistivity[j].xy, per)
        ELSE IF component = "zyx" THEN RMul(f.Z.resistivity[j].yx, per)
        ELSE RMul(RMul(RMul(<<1, 5>>, per), RAbs(f.Z.det[j])), per)

C22_CsvUsesComponent ==
    (fn = "create_csv_file" /\ pc = "done" /\ zcomponent \in Supported) =>
        LET exported == C17_ExportedFiles(Len(files))
        IN  /\ Len(ret) = Len(exported)
            /\ \A i \in DOMAIN ret :
                   \A j \in DOMAIN ret[i][3] :
                       ret[i][3][j].num.sq = C22_Radicand(exported[i], zcomponent, j)

(***************************************************************************)
(* utils/decorator.py, class deprecated, lines 17-51: deprecated(reason)   *)
(* is built, applied to a function or a class, and the function it returns *)
(* is called.  The original returns a value made of its arguments, or      *)
(* raises.                                                                 *)
(***************************************************************************)
MaxCalls == 2      \* most calls of the decorated function
MaxArg == 1        \* the argument of a call is drawn from 0..MaxArg

\* the variables of imaging/penetration_depth_3d_profile.py, which decorator.py
\* does not touch
profilevars == <<argv, isdir, files, callvars, looplocals, plotlocals, csvlocals>>

Text(t) == [kind |-> "str", text |-> t]
DeprecatedReasons ==
    {Text("use new_func"), Text(""), [kind |-> "function", text |-> ""],
     [kind |-> "class", text |-> ""]}
DecoratedTargets == [kind : {"function", "class", "other"}, name : {"f", "g"},
                     raises : BOOLEAN]
FilterActions == {"error", "ignore", "always", "default", "once"}

\* cls_or_func(*args, **kwargs): the value the original returns
Original(target, a) == [by |-> target.name, arg |-> a]

\* line 46: 'always' is put in front of the filters before the warning
warn_filter_unset(current) == current

warn_filter(current) == "always"

\* warnings.warn_explicit with no registry under the action of the first filter
\* that matches: "shown", "dropped" or "raised"
warn_explicit(action) ==
    IF action = "error" THEN "raised"
    ELSE IF action = "ignore" THEN "dropped"
    ELSE "shown"

InitDeprecated ==
    /\ entry = "deprecated"
    /\ args \in [reason : DeprecatedReasons, target : DecoratedTargets]
    /\ argv = <<>> /\ isdir = FALSE /\ files = <<>>
    /\ fn = "none" /\ period_index = 0 /\ zcomponent = "det"
    /\ pc = "__init__" /\ outcome = Running /\ ret = <<>>
    /\ edifiles = <<>> /\ k = 0
    /\ stations = <<>> /\ periods = <<>> /\ pendep = <<>> /\ latlons = <<>>
    /\ bbox = NoBox /\ zdep = NoGrid /\ points = <<>> /\ values = <<>> /\ shown = 0
    /\ PER_LIST0 = PyNone /\ latlon_dep = <<>> /\ csvfile = NoFile
    /\ reason = "" /\ msg = NoMessage /\ filter_action \in FilterActions
    /\ emitted = <<>> /\ called = <<>>
    /\ result_dir = NoDirectory /\ saved = <<>> /\ compared = <<>> /\ ext = 0

\* lines 18-21
deprecated_init ==
    /\ pc = "__init__" /\ entry = "deprecated"
    /\ IF args.reason.kind \in {"class", "function"}
       THEN Stop(Raised("TypeError", "deprecated.__init__")) /\ UNCHANGED reason
       ELSE reason' = args.reason.text /\ pc' = "__call__" /\ UNCHANGED outcome
    /\ UNCHANGED <<entry, args, profilevars, ret, msg, filter_action, emitted, called,
                   imagelocals>>

\* lines 23-51: the message is built once, when the decorator is applied
deprecated_call ==
    /\ pc = "__call__" /\ entry = "deprecated"
    /\ IF args.target.kind = "function"
       THEN /\ msg' = [fmt |-> "Call to deprecated function or method {name} ({reason}).",
                       name |-> args.target.name, reason |-> reason]
            /\ pc' = "new_func" /\ UNCHANGED outcome
       ELSE IF args.target.kind = "class"
       THEN /\ msg' = [fmt |-> "Call to deprecated class {name} ({reason}).",
                       name |-> args.target.name, reason |-> reason]
            /\ pc' = "new_func" /\ UNCHANGED outcome
       ELSE Stop(Raised("TypeError", "deprecated.__call__")) /\ UNCHANGED msg
    /\ UNCHANGED <<entry, args, profilevars, ret, reason, filter_action, emitted, called,
                   imagelocals>>

\* lines 44-49: one call new_func(a)
new_func ==
    /\ pc = "new_func" /\ entry = "deprecated" /\ Len(called) < MaxCalls
    /\ \E a \in 0..MaxArg :
           LET how == warn_explicit(warn_filter(filter_action))
           IN  IF how = "raised"
               THEN /\ Stop(Raised("DeprecationWarning", "new_func"))
                    /\ filter_action' = warn_filter(filter_action)
                    /\ UNCHANGED <<emitted, called, ret>>
               ELSE /\ emitted' = IF how = "shown"
                                  THEN Append(emitted, [category |-> "DeprecationWarning",
                                                        message |-> msg])
                                  ELSE emitted
                    /\ filter_action' = "default"
                    /\ called' = Append(called, a)
                    /\ IF args.target.raises
                       THEN Stop(Raised("Exception", args.target.name)) /\ UNCHANGED ret
                       ELSE ret' = Original(args.target, a) /\ UNCHANGED <<pc, outcome>>
    /\ UNCHANGED <<entry, args, profilevars, reason, msg, imagelocals>>

NextDeprecated ==
    \/ deprecated_init
    \/ deprecated_call
    \/ new_func

SpecDeprecated == InitDeprecated /\ [][NextDeprecated]_vars

(***************************************************************************)
(* C23: a function decorated with deprecated(reason), on every call, emits *)
(* one DeprecationWarning that names the function and the reason, and then *)
(* returns the result of the original function called with the same        *)
(* arguments.                                                              *)
(***************************************************************************)
C23_WarnsAndReturns ==
    (entry = "deprecated" /\ args.target.kind = "function" /\ msg # NoMessage) =>
        /\ Len(emitted) = Len(called)
        /\ \A i \in DOMAIN emitted :
               /\ emitted[i].category = "DeprecationWarning"
               /\ emitted[i].message.name = args.target.name
               /\ emitted[i].message.reason = args.reason.text
        /\ IF args.target.raises /\ called # <<>>
           THEN outcome = Raised("Exception", args.target.name)
           ELSE /\ outcome = Running
                /\ called # <<>> =>
                       /\ ret.by = args.target.name
                       /\ ret.arg = called[Len(called)]

C23_Witness ==
    /\ entry = "deprecated" /\ args.target.kind = "function" /\ pc = "new_func"
    /\ args.reason = Text("use new_func")
    /\ Len(called) = 2 /\ called[1] # called[2] /\ Len(emitted) = 2
    /\ ret = [by |-> args.target.name, arg |-> called[2]]

(***************************************************************************)
(* C24: in plot_latlon_depth_profile and plot_gridded_profile every        *)
(* station's target cell (row = grid_height - iy - 1, column = ix) lies    *)
(* inside the grid and never on its outermost ring:                        *)
(* 1 <= column <= ncols - 3 and 2 <= row <= nrows - 2; so the compositor's *)
(* assignment never fails, and every populated cell is within these        *)
(* limits.                                                                 *)
(***************************************************************************)
C24_InsideRing(rc) ==
    /\ 1 <= rc[2] /\ rc[2] <= zdep.shape[2] - 3
    /\ 2 <= rc[1] /\ rc[1] <= zdep.shape[1] - 2

C24_CellsInsideGrid ==
    (fn \in PlotFns) =>
        /\ outcome # Raised("IndexError", fn)
        /\ pc \in {"compose", "interp", "surface"} =>
               /\ \A i \in DOMAIN latlons :
                      StationCell(i) \in DOMAIN zdep.cells /\ C24_InsideRing(StationCell(i))
               /\ \A rc \in PopulatedCells : C24_InsideRing(rc)

\* a station on the least and one on the greatest row and column allowed
C24_Witness ==
    /\ fn \in PlotFns /\ pc = "interp"
    /\ \E i, j \in DOMAIN latlons :
           /\ StationCell(i) = <<zdep.shape[1] - 2, 1>>
           /\ StationCell(j) = <<2, zdep.shape[2] - 3>>
           /\ StationCell(i) \in PopulatedCells /\ StationCell(j) \in PopulatedCells
           /\ zdep.shape # <<4, 4>>

(***************************************************************************)
(* C25: in create_csv_file the first station file processed always         *)
(* supplies the reference period list and is always exported; a later      *)
(* station is exported only if its period list equals the first one's.  So *)
(* when the first file is the only one whose periods differ from the       *)
(* rest, it alone is exported: the result depends on the file order.       *)
(***************************************************************************)
C25_FirstFileIsReference ==
    (fn = "create_csv_file" /\ files # <<>>) =>
        /\ (pc = "csv_loop" /\ k > 1) =>
               /\ PER_LIST0 = Some(C6_PeriodList(files[1]))
               /\ latlon_dep # <<>>
               /\ <<latlon_dep[1][1], latlon_dep[1][2]>> = <<files[1].lat, files[1].lon>>
        /\ pc = "done" =>
               /\ PER_LIST0 = Some(C6_PeriodList(files[1]))
               /\ <<ret[1][1], ret[1][2]>> = <<files[1].lat, files[1].lon>>
               /\ Len(ret) = Cardinality({n \in DOMAIN files :
                                  C6_PeriodList(files[n]) = C6_PeriodList(files[1])})
               /\ (\A n \in DOMAIN files :
                       n > 1 => C6_PeriodList(files[n]) # C6_PeriodList(files[1]))
                      => Len(ret) = 1

\* the first file differs from the two others, which agree: only it is exported
C25_Witness ==
    /\ fn = "create_csv_file" /\ pc = "done" /\ Len(files) = 3
    /\ C6_PeriodList(files[2]) = C6_PeriodList(files[3])
    /\ C6_PeriodList(files[1]) # C6_PeriodList(files[2])
    /\ Len(ret) = 1
    /\ <<ret[1][1], ret[1][2]>> = <<files[1].lat, files[1].lon>>

(***************************************************************************)
(* C26: get_penetration_depth checks the selector only inside the loop     *)
(* over the stations, after that station's index check.  With an empty     *)
(* station list an unsupported selector never causes exit status 100: the  *)
(* call fails in check_period_values instead.  When the first station's    *)
(* index is out of range, the index error is raised instead of exit status *)
(* 100.  Exit status 100 needs a first station with the index in range.    *)
(***************************************************************************)
C26_SelectorCheckedLast ==
    (fn \in PlotFns /\ zcomponent \notin Supported /\ pc = "done") =>
        /\ files = <<>> => outcome = Raised("IndexError", "check_period_values")
        /\ (files # <<>> /\ period_index >= Len(files[1].Z.freq)) =>
               outcome = Raised("Exception", "get_penetration_depth")
        /\ outcome = Exited(100) =>
               /\ files # <<>>
               /\ period_index < Len(files[1].Z.freq)
               /\ Len(latlons) = 1

C26_Witness ==
    /\ fn \in PlotFns /\ zcomponent = "zxx" /\ pc = "done"
    /\ files # <<>> /\ period_index = Len(files[1].Z.freq)
    /\ outcome = Raised("Exception", "get_penetration_depth")
    /\ stations # <<>> /\ pendep = <<>>

(***************************************************************************)
(* C27: get_penetration_depth does not reject a negative frequency index.  *)
(* When -len(freq) <= i < 0 for every station, the guard i >= len(freq)    *)
(* passes, and the period and the depth of a station are taken from        *)
(* position len(freq) + i (counted from 0) of its frequencies, with no     *)
(* error.                                                                  *)
(***************************************************************************)
C27_FromEnd(f) == Len(f.Z.freq) + period_index + 1

C27_NegativeIndexAccepted ==
    (/\ fn \in PlotFns /\ zcomponent \in Supported /\ period_index < 0
     /\ \A n \in DOMAIN files : -Len(files[n].Z.freq) <= period_index) =>
        /\ outcome.kind = "raised" => outcome.at # "get_penetration_depth"
        /\ outcome.kind # "exit"
        /\ \A n \in DOMAIN periods : periods[n] = RInv(files[n].Z.freq[C27_FromEnd(files[n])])
        /\ \A n \in DOMAIN pendep :
               /\ ~pendep[n].nan
               /\ pendep[n].sq = C22_Radicand(files[n], zcomponent, C27_FromEnd(files[n]))
        /\ pc \in {"grid", "check", "compose", "interp", "surface"} =>
               Len(pendep) = Len(files)

\* index -2 on files of two frequencies reads the first frequency
C27_Witness ==
    /\ fn \in PlotFns /\ zcomponent = "zxy" /\ period_index = -2
    /\ Len(files) = 2 /\ pc = "interp"
    /\ periods = <<<<8, 1>>, <<8, 1>>>>
    /\ Len(pendep) = 2 /\ pendep[1].sq # pendep[2].sq

(***************************************************************************)
(* get_penetration_depth (lines 314-362) and                               *)
(* get_penetration_depths_from_edi_file (lines 500-532) called one after   *)
(* the other on the same station files, with the same single selector.     *)
(***************************************************************************)
InitDepths ==
    /\ entry = "get_penetration_depth"
    /\ args = <<>> /\ argv = <<>> /\ isdir = TRUE
    /\ files \in Directories
    /\ fn = entry
    /\ period_index \in PeriodIndexes
    /\ zcomponent \in Selectors
    /\ pc = "call" /\ outcome = Running /\ ret = <<>>
    /\ LocalsInit

\* lines 325-329
Call_get_penetration_depth ==
    /\ pc = "call" /\ entry = "get_penetration_depth"
    /\ edifiles' = files
    /\ k' = 1
    /\ pc' = "gpd_loop"
    /\ UNCHANGED <<inputs, decolocals, callvars, outcome, ret, stations, periods, pendep,
                   latlons, plotlocals, csvlocals>>

\* lines 360-362: the call returns to its caller
Return_get_penetration_depth ==
    /\ pc = "gpd_loop" /\ k > Len(edifiles) /\ entry = "get_penetration_depth"
    /\ IF check_period_values(periods).raised
       THEN Stop(Raised("IndexError", "check_period_values"))
       ELSE pc' = "from_edi" /\ UNCHANGED outcome
    /\ UNCHANGED <<inputs, decolocals, callvars, ret, looplocals, plotlocals, csvlocals>>

\* lines 500-532, once per file
Call_get_penetration_depths_from_edi_file ==
    /\ pc = "from_edi" /\ entry = "get_penetration_depth"
    /\ LET r == [n \in DOMAIN files |->
                    get_penetration_depths_from_edi_file(files[n], {zcomponent})]
       IN  IF \E n \in DOMAIN files : r[n].raised
           THEN /\ Stop(Raised("UnboundLocalError", "get_penetration_depths_from_edi_file"))
                /\ UNCHANGED ret
           ELSE ret' = r /\ Stop(Returned)
    /\ UNCHANGED <<inputs, decolocals, callvars, looplocals, plotlocals, csvlocals>>

NextDepths ==
    \/ Call_get_penetration_depth
    \/ get_penetration_depth_loop
    \/ Return_get_penetration_depth
    \/ Call_get_penetration_depths_from_edi_file

SpecDepths == InitDepths /\ [][NextDepths]_vars

(***************************************************************************)
(* C28: for the same station, frequency index i and single selector of     *)
(* zxy, zyx and det, the value get_penetration_depth returns is the        *)
(* negation of the i-th value get_penetration_depths_from_edi_file         *)
(* returns: the first is <= 0, the second >= 0, and their magnitudes are   *)
(* equal.                                                                  *)
(***************************************************************************)
C28_Position(f) ==
    IF period_index >= 0 THEN period_index + 1 ELSE Len(f.Z.freq) + period_index + 1

C28_Negation ==
    (entry = "get_penetration_depth" /\ pc = "done" /\ outcome = Returned) =>
        /\ zcomponent \in Supported
        /\ Len(pendep) = Len(files) /\ Len(ret) = Len(files)
        /\ \A n \in DOMAIN files :
               LET one == pendep[n]
                   all == ret[n].depths
                   other == all[C28_Position(files[n])]
               IN  /\ Len(all) = Len(files[n].Z.freq)
                   /\ ~one.nan /\ ~other.nan
                   /\ one.neg \/ one.sq[1] = 0
                   /\ ~other.neg
                   /\ one.sq = other.sq

C28_Witness ==
    /\ entry = "get_penetration_depth" /\ pc = "done" /\ outcome = Returned
    /\ zcomponent = "det" /\ period_index = 1 /\ Len(files) = 2
    /\ files[1].Z.det[2] = <<-5, 1>>
    /\ pendep[1].neg /\ pendep[1].sq = ret[1].depths[2].sq
    /\ ret[1].depths[1].sq # ret[1].depths[2].sq

(***************************************************************************)
(* C29: create_csv_file on a directory with no station files raises no     *)
(* error: it writes an empty table to the output path and returns an empty *)
(* list.                                                                   *)
(***************************************************************************)
C29_EmptyDirectoryCsv ==
    (fn = "create_csv_file" /\ files = <<>>) =>
        /\ outcome.kind \in {"running", "returned"}
        /\ latlon_dep = <<>>
        /\ pc = "done" =>
               /\ outcome = Returned
               /\ ret = <<>>
               /\ csvfile = [written |-> TRUE, rows |-> <<>>]
               /\ PER_LIST0 = PyNone

C29_Witness ==
    /\ fn = "create_csv_file" /\ Len(files) = 0 /\ pc = "done"
    /\ outcome.kind = "returned" /\ csvfile.written /\ Len(csvfile.rows) = 0

(***************************************************************************)
(* utils/decorator.py, class ImageCompare, lines 54-139: one call of the   *)
(* wrapped test.  The test images of a test go to the directory            *)
(* result_dir/test_suite_name; compare_images is matplotlib's and says     *)
(* that the two images match or that they do not.                          *)
(***************************************************************************)
MaxExtensions == 2     \* most entries of self.extensions

Extensions == {"png", "pdf", "svg"}
ExtensionLists == {l \in SeqsUpTo(Extensions, MaxExtensions) :
                      \A i, j \in DOMAIN l : l[i] = l[j] => i = j}
\* what a run before this one may have left in the directory
Directories0 == {NoDirectory} \cup {[exists |-> TRUE, images |-> s] : s \in {{}, {"png"}}}

InitImageCompare ==
    /\ entry = "ImageCompare"
    /\ args \in [extensions : ExtensionLists, baseline : SUBSET Extensions,
                 raises : BOOLEAN]
    /\ argv = <<>> /\ isdir = FALSE /\ files = <<>>
    /\ fn = "none" /\ period_index = 0 /\ zcomponent = "det"
    /\ pc = "new_test_func" /\ outcome = Running /\ ret = <<>>
    /\ edifiles = <<>> /\ k = 0
    /\ stations = <<>> /\ periods = <<>> /\ pendep = <<>> /\ latlons = <<>>
    /\ bbox = NoBox /\ zdep = NoGrid /\ points = <<>> /\ values = <<>> /\ shown = 0
    /\ PER_LIST0 = PyNone /\ latlon_dep = <<>> /\ csvfile = NoFile
    /\ reason = "" /\ msg = NoMessage /\ filter_action = "default"
    /\ emitted = <<>> /\ called = <<>>
    /\ result_dir \in Directories0 /\ saved = <<>> /\ compared = <<>> /\ ext = 0

deprecatedlocals == <<reason, msg, filter_action, emitted, called>>

\* lines 84-87: the test itself
new_test_func_original ==
    /\ pc = "new_test_func" /\ entry = "ImageCompare"
    /\ IF args.raises
       THEN Stop(Raised("Exception", "original")) /\ UNCHANGED ret
       ELSE ret' = <<"result">> /\ pc' = "pairs" /\ UNCHANGED outcome
    /\ UNCHANGED <<entry, args, profilevars, deprecatedlocals, imagelocals>>

\* lines 115-125: the generator runs to its loop when the first pair is asked for
get_baseline_result_pairs ==
    /\ pc = "pairs" /\ entry = "ImageCompare"
    /\ result_dir' = IF result_dir.exists THEN result_dir
                     ELSE [exists |-> TRUE, images |-> {}]
    /\ ext' = 1
    /\ pc' = "loop"
    /\ UNCHANGED <<entry, args, profilevars, deprecatedlocals, outcome, ret, saved, compared>>

\* lines 88-109: one extension.  savefig opens the file in result_dir, which
\* fails when the directory is not there
new_test_func_loop ==
    /\ pc = "loop" /\ entry = "ImageCompare" /\ ext <= Len(args.extensions)
    /\ LET e == args.extensions[ext]
           written == [result_dir EXCEPT !.images = @ \cup {e}]
       IN  IF ~result_dir.exists
           THEN /\ Stop(Raised("IOError", "savefig"))
                /\ UNCHANGED <<result_dir, saved, compared, ext>>
           ELSE /\ saved' = Append(saved, e)
                /\ IF e \in args.baseline
                   THEN /\ compared' = Append(compared, e)
                        /\ \/ /\ Stop(Raised("Failed", "pytest.fail"))
                              /\ result_dir' = written
                              /\ UNCHANGED ext
                           \/ /\ result_dir' = NoDirectory
                              /\ ext' = ext + 1
                              /\ UNCHANGED <<pc, outcome>>
                   ELSE /\ Stop(Raised("Skipped", "pytest.skip"))
                        /\ result_dir' = written
                        /\ UNCHANGED <<compared, ext>>
    /\ UNCHANGED <<entry, args, profilevars, deprecatedlocals, ret>>

\* line 111
new_test_func_return ==
    /\ pc = "loop" /\ entry = "ImageCompare" /\ ext > Len(args.extensions)
    /\ Stop(Returned)
    /\ UNCHANGED <<entry, args, profilevars, deprecatedlocals, ret, imagelocals>>

NextImageCompare ==
    \/ new_test_func_original
    \/ get_baseline_result_pairs
    \/ new_test_func_loop
    \/ new_test_func_return

SpecImageCompare == InitImageCompare /\ [][NextImageCompare]_vars

(***************************************************************************)
(* C30: in a test wrapped by ImageCompare with more than one extension, an *)
(* image is saved and compared against its baseline for every extension,   *)
(* in order: a successful match on an earlier extension, which removes the *)
(* result directory, does not prevent saving and comparing the later       *)
(* extensions.  So a test that ran, with a baseline for every extension    *)
(* and no comparison failing, ends with every extension saved and          *)
(* compared and returns the test's result.                                 *)
(***************************************************************************)
C30_EveryExtensionCompared ==
    (/\ entry = "ImageCompare" /\ pc = "done"
     /\ outcome.at \notin {"original", "pytest.fail", "pytest.skip"}) =>
        /\ outcome = Returned
        /\ saved = args.extensions
        /\ compared = args.extensions

====
